---- MODULE Spec2Model ----
(***************************************************************************)
(* Model of backend_groqwinsights.py: the Flask backend of the mental      *)
(* health chatbot.  The state is the session registry chatbot_instances,   *)
(* the MentalHealthChatbot objects it refers to (memory, emotions,         *)
(* message_count) and the position of every request handler thread.        *)
(*                                                                         *)
(* Strings whose contents the code inspects (the gateway's classification  *)
(* output, the user's message, the context string) are sequences of        *)
(* string pieces; concatenation is \o.  Timestamps and the session         *)
(* duration are wall-clock values no handler branches on; they are left    *)
(* out of the turns and carried as one opaque value in the response.       *)
(***************************************************************************)
EXTENDS Integers, Sequences, FiniteSets, TLC

\* ------------------------------------------------------------------ bounds

\* /chat requests that reach the session lookup, over a whole behaviour.
MaxRequests == 6
\* A request may arrive while another one is still being handled only as
\* long as fewer than MaxRaced /chat requests have reached the session lookup;
\* a behaviour in which requests overlapped is followed for one /chat request
\* more than those.
MaxRaced == 2
\* Longest emotion log the mood-insight specification starts from.
MaxLog == 2
\* Pieces a gateway classification output is assembled from (SpecClassify).
MaxPieces == 2

\* Request handler threads of the threaded development server (app.run).
ThreadOrder == <<"t1", "t2">>
Workers == {ThreadOrder[k] : k \in 1..Len(ThreadOrder)}
Rank(w) == CHOOSE k \in 1..Len(ThreadOrder) : ThreadOrder[k] = w
\* Session ids a request can carry; a request without one uses "default".
SessionIds == {"default"}
NoSessionId == "<absent>"

\* ------------------------------------------------------------ program data

\* ConversationContext.__init__(max_context=5): deque(maxlen=5)
max_context == 5

emotion_categories ==
    <<"depression", "anxiety", "anger", "self_harm", "positive", "neutral">>

Labels == {emotion_categories[k] : k \in 1..Len(emotion_categories)}

\* The spelling of each category word, one character per element.
Chars(category) ==
    CASE category = "depression" -> <<"d","e","p","r","e","s","s","i","o","n">>
      [] category = "anxiety"    -> <<"a","n","x","i","e","t","y">>
      [] category = "anger"      -> <<"a","n","g","e","r">>
      [] category = "self_harm"  -> <<"s","e","l","f","_","h","a","r","m">>
      [] category = "positive"   -> <<"p","o","s","i","t","i","v","e">>
      [] category = "neutral"    -> <<"n","e","u","t","r","a","l">>

APOLOGY ==
    <<"I'm having trouble generating a response right now. Please try again later.">>

Min(a, b) == IF a <= b THEN a ELSE b

\* ------------------------------------------------------- string operations

UpperAlpha == <<"A","B","C","D","E","F","G","H","I","J","K","L","M",
                "N","O","P","Q","R","S","T","U","V","W","X","Y","Z">>
LowerAlpha == <<"a","b","c","d","e","f","g","h","i","j","k","l","m",
                "n","o","p","q","r","s","t","u","v","w","x","y","z">>

\* str.lower() on one character
LowerChar(c) ==
    IF \E k \in 1..Len(UpperAlpha) : UpperAlpha[k] = c
    THEN LowerAlpha[CHOOSE k \in 1..Len(UpperAlpha) : UpperAlpha[k] = c]
    ELSE c

\* str.lower()
Lower(s) == [k \in 1..Len(s) |-> LowerChar(s[k])]

Whitespace == {" ", "\n", "\t"}

RECURSIVE LStrip(_)
LStrip(s) ==
    IF s # <<>> /\ Head(s) \in Whitespace THEN LStrip(Tail(s)) ELSE s

RECURSIVE RStrip(_)
RStrip(s) ==
    IF s # <<>> /\ s[Len(s)] \in Whitespace
    THEN RStrip(SubSeq(s, 1, Len(s) - 1))
    ELSE s

\* str.strip()
Strip(s) == RStrip(LStrip(s))

\* Python's `p in s` on strings
IsSubstr(p, s) ==
    \E k \in 0..(Len(s) - Len(p)) : SubSeq(s, k + 1, k + Len(p)) = p

\* seq[-n:]
LastN(s, n) == SubSeq(s, IF Len(s) > n THEN Len(s) - n + 1 ELSE 1, Len(s))

\* ------------------------------------------------------------- LLM gateway

\* What one GroqClient.chat call produces: the completion text, or an
\* exception (network failure, non-2xx status, malformed body).
Completion(text) == [ok |-> TRUE, text |-> text]
GatewayError == [ok |-> FALSE, text |-> <<>>]

\* ----------------------------------------------------- conversation engine

\* The loop of classify_emotion: the first category, in list order, that
\* occurs in the result.
RECURSIVE first_match(_, _)
first_match(result, k) ==
    IF k > Len(emotion_categories) THEN "neutral"
    ELSE IF IsSubstr(Chars(emotion_categories[k]), result)
         THEN emotion_categories[k]
         ELSE first_match(result, k + 1)

\* classify_emotion without .lower()
classify_emotion_case_sensitive(out) ==
    IF out.ok THEN first_match(Strip(out.text), 1) ELSE "neutral"

classify_emotion(out) ==
    IF out.ok THEN first_match(Lower(Strip(out.text)), 1) ELSE "neutral"

\* generate_response without the fallback text
generate_response_no_fallback(out) == out.text

generate_response(out) == IF out.ok THEN out.text ELSE APOLOGY

\* a list in place of the bounded deque
deque_append_unbounded(memory_, turn) == Append(memory_, turn)

\* deque(maxlen=max_context).append
deque_append(memory_, turn) ==
    IF Len(memory_) >= max_context
    THEN Append(Tail(memory_), turn)
    ELSE Append(memory_, turn)

\* `if emotion != "neutral"` in place of `if emotion`
log_append_skips_neutral(emotions_, emotion) ==
    IF emotion \notin {"", "neutral"} THEN Append(emotions_, emotion) ELSE emotions_

\* add_turn, the emotion log: `if emotion: self.emotions.append(emotion)`
log_append(emotions_, emotion) ==
    IF emotion # "" THEN Append(emotions_, emotion) ELSE emotions_

\* f"User: {turn['user']}\nBot: {turn['bot']}"
format_turn(turn) == <<"User: ">> \o turn.user \o <<"\nBot: ">> \o turn.bot

\* Turns of the history that get_context keeps
ContextTurns == 2

\* get_context without the [-2:] slice
get_context_all(memory_) == [k \in 1..Len(memory_) |-> format_turn(memory_[k])]

get_context(memory_) ==
    LastN([k \in 1..Len(memory_) |-> format_turn(memory_[k])], ContextTurns)

\* "\n".join(parts)
RECURSIVE join_lines(_)
join_lines(parts) ==
    IF parts = <<>> THEN <<>>
    ELSE IF Len(parts) = 1 THEN parts[1]
    ELSE parts[1] \o <<"\n">> \o join_lines(Tail(parts))

context_text(memory_) == join_lines(get_context(memory_))

\* Entries of the emotion log that the emotional balance counts
BalanceWindow == 5

positive_emotions == {"positive"}
negative_emotions == {"depression", "anxiety", "anger", "self_harm"}

\* the balance counted over the whole log
emotional_balance_whole_log(emotions_) ==
    LET n(S) == Cardinality({k \in 1..Len(emotions_) : emotions_[k] \in S})
    IN  [positive |-> n(positive_emotions),
         negative |-> n(negative_emotions),
         neutral  |-> Len(emotions_) - n(positive_emotions) - n(negative_emotions)]

emotional_balance(emotions_) ==
    LET recent == LastN(emotions_, BalanceWindow)
        n(S) == Cardinality({k \in 1..Len(recent) : recent[k] \in S})
    IN  [positive |-> n(positive_emotions),
         negative |-> n(negative_emotions),
         neutral  |-> Len(recent) - n(positive_emotions) - n(negative_emotions)]

\* the risk read off the recent log instead of the current label
risk_level_of_window(emotions_) ==
    LET recent == LastN(emotions_, BalanceWindow)
        seen == {recent[k] : k \in 1..Len(recent)}
    IN  IF "self_harm" \in seen THEN "high"
        ELSE IF seen \cap {"depression", "anxiety", "anger"} # {} THEN "moderate"
        ELSE "low"

risk_level(current_emotion) ==
    IF current_emotion = "self_harm" THEN "high"
    ELSE IF current_emotion \in {"depression", "anxiety", "anger"} THEN "moderate"
    ELSE "low"

suggestions(current_emotion) ==
    IF current_emotion = "self_harm"
    THEN << <<"Please reach out to a crisis hotline immediately.">>,
            <<"Your life has value, and there is help available.">>,
            <<"Consider speaking with a mental health professional.">> >>
    ELSE IF current_emotion \in {"depression", "anxiety", "anger"}
    THEN << <<"It's okay to feel ", current_emotion,
              ". Try to take a few deep breaths.">>,
            <<"Consider taking some time for self-care today.">>,
            <<"Reach out to someone you trust to talk.">> >>
    ELSE IF current_emotion = "positive"
    THEN << <<"That's wonderful! What can you do to keep this positive feeling going?">>,
            <<"Remember to savor these moments of joy.">>,
            <<"Keep practicing self-awareness and gratitude.">> >>
    ELSE << <<"How you're feeling is valid and important.">>,
            <<"I'm here to listen to whatever you'd like to share.">>,
            <<"Sometimes just having someone to talk to can be helpful.">> >>

generate_mood_insights_by_window(current_emotion, emotions_) ==
    [current_mood      |-> current_emotion,
     risk_level        |-> risk_level_of_window(emotions_),
     emotional_balance |-> emotional_balance(emotions_),
     suggestions       |-> suggestions(current_emotion)]

\* _generate_mood_insights: the dict it returns.  Only the self_harm branch
\* adds the key urgent_intervention_needed.
generate_mood_insights(current_emotion, emotions_) ==
    LET insights ==
            [current_mood      |-> current_emotion,
             risk_level        |-> risk_level(current_emotion),
             emotional_balance |-> emotional_balance(emotions_),
             suggestions       |-> suggestions(current_emotion)]
    IN  IF current_emotion = "self_harm"
        THEN [k \in DOMAIN insights \cup {"urgent_intervention_needed"} |->
                 IF k = "urgent_intervention_needed" THEN TRUE ELSE insights[k]]
        ELSE insights

\* mood_insights.get("urgent_intervention_needed", False)
urgent_intervention(mood_insights) ==
    IF "urgent_intervention_needed" \in DOMAIN mood_insights
    THEN mood_insights["urgent_intervention_needed"]
    ELSE FALSE

\* str(datetime.now() - self.session_start).split('.')[0]
Duration == "h:mm:ss"

\* The dict process_message returns
process_message_result(bot_response, mood_insights, urgent, count) ==
    [success |-> TRUE,
     data |-> [bot_response |-> bot_response,
               mood_insights |-> mood_insights,
               urgent_intervention_needed |-> urgent,
               session_stats |-> [message_count |-> count,
                                  session_duration |-> Duration]]]

\* ------------------------------------------------------------ HTTP facade

Response(status, body) == [status |-> status, body |-> body]
NoResponse == Response(0, [success |-> FALSE])

InvalidRequest == Response(400, [success |-> FALSE, error |-> "Invalid request"])
EmptyMessage == Response(400, [success |-> FALSE, error |-> "Empty message"])
KeyNotConfigured ==
    Response(500, [success |-> FALSE, error |-> "GROQ_API_KEY not configured"])
\* An exception that leaves the view function: the framework's own 500 page.
UnhandledError == Response(500, [html |-> "Internal Server Error"])

\* The except branch of chat()
DegradedResponse ==
    Response(500,
        [success |-> FALSE,
         error |-> "Server error during chat processing.",
         data |-> [bot_response |-> <<"I'm having a technical issue. Please try again.">>,
                   mood_insights |->
                       [current_mood |-> "neutral",
                        risk_level |-> "low",
                        emotional_balance |-> [positive |-> 0, neutral |-> 1, negative |-> 0],
                        suggestions |-> << <<"Please try again in a moment">> >>],
                   urgent_intervention_needed |-> FALSE]])

ResetResponse ==
    Response(200, [success |-> TRUE, message |-> "Session reset successfully"])

\* ------------------------------------------------------------------ state

VARIABLES
    GROQ_API_KEY,       \* TRUE iff the credential was set at start-up
    chatbot_instances,  \* session id -> MentalHealthChatbot (0: no entry)
    memory,             \* chatbot -> ConversationContext.memory
    emotions,           \* chatbot -> ConversationContext.emotions
    message_count,      \* chatbot -> MentalHealthChatbot.message_count
    req,                \* handler thread -> the locals of the request it serves
    issued,             \* /chat requests that reached the session lookup
    overlapped,         \* a request arrived while another one was handled
    processed,          \* chatbot -> process_message calls that returned
    raced,              \* chatbot -> a request fetched it while another
                        \*            request of its session id was in flight
    was_reset,          \* session id -> "no", or what the reset that was the
                        \*   last request for the id found: "raced" (a /chat of
                        \*   the id in its session lookup), "absent" (no session),
                        \*   "removed" (a session with messages), "empty"
    unit                \* the single call of SpecClassify / SpecInsights

vars == <<GROQ_API_KEY, chatbot_instances, memory, emotions, message_count, req,
          issued, overlapped, processed, raced, was_reset, unit>>

appvars == <<GROQ_API_KEY, chatbot_instances, memory, emotions, message_count,
             req, issued, overlapped, processed, raced, was_reset>>

\* MentalHealthChatbot objects that can be alive at once: one per registry
\* entry and one per handler thread still holding a removed one.
Chatbots == 1..(Cardinality(SessionIds) + Cardinality(Workers))

\* ----------------------------------------------------------------- inputs

\* What the client puts under "message"
StrMessage(text) == [kind |-> "str", text |-> text]
MessageValues ==
    {[kind |-> "missing", text |-> <<>>],     \* no JSON body, or no "message" key
     [kind |-> "number", text |-> <<>>],      \* a JSON value that is not a string
     StrMessage(<<>>),
     StrMessage(<<" ", "\n">>),
     StrMessage(<<"I feel hopeless">>),
     StrMessage(<<" ", "I feel hopeless", "\n">>)}

\* Classification outputs the gateway gives in the session specification
ClassifierOutputs ==
    {Completion(<<"S","e","l","f","_","H","a","r","m",".">>),
     GatewayError}

\* Replies the gateway gives
ReplyOutputs == {Completion(<<"I hear you.">>), GatewayError}

\* ------------------------------------------------------- request handlers

Idle ==
    [pc |-> "idle", kind |-> "", session_id |-> "", user_message |-> <<>>,
     after_reset |-> "no",
     chatbot |-> 0, emotion |-> "", cls_failed |-> FALSE, context |-> <<>>,
     bot_response |-> <<>>, gen_failed |-> FALSE,
     mood_insights |-> [current_mood |-> ""], urgent |-> FALSE,
     count |-> 0, logged |-> 0, response |-> NoResponse]

InFlight(r) == r.pc # "idle"

\* Inside process_message
ProcessingPcs == {"classify", "generate", "log", "insights", "load", "store", "respond"}
Processing(r) == r.pc \in ProcessingPcs

\* Objects still referenced, by the registry or by a handler's local `chatbot`
Referenced(reg, rq) ==
    ({reg[s] : s \in SessionIds} \cup {rq[w].chatbot : w \in Workers}) \ {0}

\* MentalHealthChatbot(): the lowest slot holding no live object
NewChatbot == CHOOSE c \in Chatbots :
    /\ c \notin Referenced(chatbot_instances, req)
    /\ \A d \in Chatbots : d < c => d \in Referenced(chatbot_instances, req)

\* An object nothing refers to any more is reclaimed: its slot goes back to
\* the state MentalHealthChatbot.__init__ gives a new object.
Reclaim(f, blank, live) == [c \in Chatbots |-> IF c \in live THEN f[c] ELSE blank]

Store(reg, rq, mem, emo, cnt, prc, rcd) ==
    LET live == Referenced(reg, rq) IN
    /\ chatbot_instances' = reg
    /\ req' = rq
    /\ memory' = Reclaim(mem, <<>>, live)
    /\ emotions' = Reclaim(emo, <<>>, live)
    /\ message_count' = Reclaim(cnt, 0, live)
    /\ processed' = Reclaim(prc, 0, live)
    /\ raced' = Reclaim(rcd, FALSE, live)

\* A finished handler's response is sent before any thread takes another
\* step: sending touches no shared state, so no interleaving is lost.
At(w, pc) == req[w].pc = pc /\ \A v \in Workers : req[v].pc # "done"

\* A handler finishes with `response`
Answer(w, response) ==
    [req EXCEPT ![w].pc = "done", ![w].kind = "chat", ![w].response = response]

Keep(rq) ==
    Store(chatbot_instances, rq, memory, emotions, message_count,
          processed, raced)

\* A request arrives and the server hands it to thread w: the first thread
\* that is free.
Arrive(w) ==
    /\ At(w, "idle")
    /\ \A v \in Workers : req[v].pc = "idle" => Rank(w) <= Rank(v)
    /\ (\E v \in Workers : InFlight(req[v])) => issued < MaxRaced

\* data.get("session_id", "default")
session_id_of(sid) == IF sid = NoSessionId THEN "default" ELSE sid

\* chat(), lines 249-265: validation, then the membership test on the
\* registry.  A request that fails validation touches no shared state, so it
\* is only taken while no other request is handled.
chat_begin(w) ==
    /\ Arrive(w)
    /\ \E m \in MessageValues, sid \in SessionIds \cup {NoSessionId} :
        LET user_message == Strip(m.text)
            session_id == session_id_of(sid)
            alone == \A v \in Workers : ~InFlight(req[v])
            fresh == chatbot_instances[session_id] = 0
            c == chatbot_instances[session_id]
        IN  IF m.kind = "missing" THEN
                /\ alone
                /\ Keep(Answer(w, InvalidRequest))
                /\ UNCHANGED <<issued, overlapped, was_reset>>
            ELSE IF m.kind = "number" THEN
                \* data["message"].strip() raises AttributeError
                /\ alone
                /\ Keep(Answer(w, UnhandledError))
                /\ UNCHANGED <<issued, overlapped, was_reset>>
            ELSE IF user_message = <<>> THEN
                /\ alone
                /\ Keep(Answer(w, EmptyMessage))
                /\ UNCHANGED <<issued, overlapped, was_reset>>
            ELSE IF ~GROQ_API_KEY THEN
                /\ alone
                /\ Keep(Answer(w, KeyNotConfigured))
                /\ UNCHANGED <<issued, overlapped, was_reset>>
            ELSE
                /\ issued < MaxRequests
                /\ overlapped => issued <= MaxRaced
                /\ issued' = issued + 1
                /\ overlapped' = (overlapped \/ ~alone)
                /\ was_reset' = [was_reset EXCEPT ![session_id] = "no"]
                /\ Keep([req EXCEPT ![w] =
                            [Idle EXCEPT
                                !.pc = IF fresh THEN "create" ELSE "fetch",
                                !.kind = "chat",
                                !.after_reset = was_reset[session_id],
                                !.session_id = session_id,
                                !.user_message = user_message]])
    /\ UNCHANGED <<GROQ_API_KEY, unit>>

\* chat(), line 266: chatbot_instances[session_id] = MentalHealthChatbot().
\* The assignment replaces whatever another request stored meanwhile.
chat_create(w) ==
    /\ At(w, "create")
    /\ Store([chatbot_instances EXCEPT ![req[w].session_id] = NewChatbot],
             [req EXCEPT ![w].pc = "fetch"],
             memory, emotions, message_count, processed, raced)
    /\ UNCHANGED <<GROQ_API_KEY, issued, overlapped, was_reset, unit>>

\* chat(), line 268: chatbot = chatbot_instances[session_id], a KeyError
\* when a reset removed the entry after the membership test.
chat_fetch(w) ==
    /\ At(w, "fetch")
    /\ LET session_id == req[w].session_id
           c == chatbot_instances[session_id]
           others == \E v \in Workers \ {w} :
                        InFlight(req[v]) /\ req[v].session_id = session_id
       IN  IF c = 0
           THEN Keep(Answer(w, UnhandledError))
           ELSE Store(chatbot_instances,
                      [req EXCEPT ![w].pc = "classify", ![w].chatbot = c],
                      memory, emotions, message_count, processed,
                      [raced EXCEPT ![c] = @ \/ others])
    /\ UNCHANGED <<GROQ_API_KEY, issued, overlapped, was_reset, unit>>

\* process_message, lines 199-202: classify_emotion (first gateway call),
\* then the read of the history by get_context.  `unexpected`: an exception
\* neither helper catches, which leaves process_message.
process_classify(w) ==
    /\ At(w, "classify")
    /\ \E out \in ClassifierOutputs, unexpected \in BOOLEAN :
        IF unexpected
        THEN Keep(Answer(w, DegradedResponse))
        ELSE Keep([req EXCEPT ![w].pc = "generate",
                              ![w].emotion = classify_emotion(out),
                              ![w].cls_failed = ~out.ok,
                              ![w].context = context_text(memory[req[w].chatbot])])
    /\ UNCHANGED <<GROQ_API_KEY, issued, overlapped, was_reset, unit>>

\* process_message, lines 205-208 and add_turn, line 76: generate_response
\* (second gateway call), then self.memory.append.  context_text is not read
\* again after the call, so the local is dropped here.
process_generate(w) ==
    /\ At(w, "generate")
    /\ \E out \in ReplyOutputs :
        LET c == req[w].chatbot
            bot == generate_response(out)
            turn == [user |-> req[w].user_message, bot |-> bot,
                     emotion |-> req[w].emotion]
        IN  Store(chatbot_instances,
                  [req EXCEPT ![w].pc = "log", ![w].bot_response = bot,
                              ![w].gen_failed = ~out.ok,
                              ![w].context = <<>>],
                  [memory EXCEPT ![c] = deque_append(@, turn)],
                  emotions, message_count, processed, raced)
    /\ UNCHANGED <<GROQ_API_KEY, issued, overlapped, was_reset, unit>>

\* add_turn, lines 83-84: the emotion log
process_log(w) ==
    /\ At(w, "log")
    /\ LET c == req[w].chatbot IN
       Store(chatbot_instances, [req EXCEPT ![w].pc = "insights"],
             memory, [emotions EXCEPT ![c] = log_append(@, req[w].emotion)],
             message_count, processed, raced)
    /\ UNCHANGED <<GROQ_API_KEY, issued, overlapped, was_reset, unit>>

\* process_message, lines 211-214: _generate_mood_insights reads the log
process_insights(w) ==
    /\ At(w, "insights")
    /\ LET c == req[w].chatbot
           mood_insights == generate_mood_insights(req[w].emotion, emotions[c])
       IN  Keep([req EXCEPT ![w].pc = "load",
                            ![w].mood_insights = mood_insights,
                            ![w].urgent = urgent_intervention(mood_insights),
                            ![w].logged = Len(emotions[c])])
    /\ UNCHANGED <<GROQ_API_KEY, issued, overlapped, was_reset, unit>>

\* process_message, line 216: self.message_count += 1 reads ...
process_load(w) ==
    /\ At(w, "load")
    /\ Keep([req EXCEPT ![w].pc = "store",
                        ![w].count = message_count[req[w].chatbot]])
    /\ UNCHANGED <<GROQ_API_KEY, issued, overlapped, was_reset, unit>>

\* ... and then writes the attribute; the value read is not used again
process_store(w) ==
    /\ At(w, "store")
    /\ Store(chatbot_instances,
             [req EXCEPT ![w].pc = "respond", ![w].count = 0],
             memory, emotions,
             [message_count EXCEPT ![req[w].chatbot] = req[w].count + 1],
             processed, raced)
    /\ UNCHANGED <<GROQ_API_KEY, issued, overlapped, was_reset, unit>>

\* process_message, lines 217-232, and chat(), line 273: the result, which
\* reads self.message_count again
process_return(w) ==
    /\ At(w, "respond")
    /\ LET c == req[w].chatbot
           result == process_message_result(req[w].bot_response,
                         req[w].mood_insights, req[w].urgent, message_count[c])
       IN  Store(chatbot_instances, Answer(w, Response(200, result)),
                 memory, emotions, message_count,
                 [processed EXCEPT ![c] = @ + 1], raced)
    /\ UNCHANGED <<GROQ_API_KEY, issued, overlapped, was_reset, unit>>

\* a reset that leaves the entry in place
registry_pop_nothing(reg, session_id) == reg

\* chatbot_instances.pop(session_id, None)
registry_pop(reg, session_id) == [reg EXCEPT ![session_id] = 0]

\* reset_session()
reset_session(w) ==
    /\ Arrive(w)
    /\ \E sid \in SessionIds \cup {NoSessionId} :
        LET session_id == session_id_of(sid)
            c == chatbot_instances[session_id]
            others == \E v \in Workers \ {w} :
                         /\ req[v].pc \in {"create", "fetch"}
                         /\ req[v].session_id = session_id
        IN  /\ Store(registry_pop(chatbot_instances, session_id),
                     [req EXCEPT ![w] = [Idle EXCEPT !.pc = "done",
                                                     !.kind = "reset",
                                                     !.session_id = session_id,
                                                     !.response = ResetResponse]],
                     memory, emotions, message_count, processed, raced)
            /\ was_reset' = [was_reset EXCEPT ![session_id] =
                                IF others THEN "raced"
                                ELSE IF c = 0 THEN "absent"
                                ELSE IF emotions[c] # <<>> THEN "removed"
                                ELSE "empty"]
    /\ UNCHANGED <<GROQ_API_KEY, issued, unit>>
    /\ overlapped' = (overlapped \/ \E v \in Workers : InFlight(req[v]))

\* The response is sent; the thread's locals go away.
deliver(w) ==
    /\ req[w].pc = "done"
    /\ Keep([req EXCEPT ![w] = Idle])
    /\ UNCHANGED <<GROQ_API_KEY, issued, overlapped, was_reset, unit>>

NoUnit == [pc |-> "off", out |-> GatewayError, log |-> <<>>, label |-> "",
           mood_insights |-> [current_mood |-> ""], urgent |-> FALSE,
           response |-> NoResponse]

Init ==
    /\ GROQ_API_KEY \in BOOLEAN
    /\ chatbot_instances = [s \in SessionIds |-> 0]
    /\ memory = [c \in Chatbots |-> <<>>]
    /\ emotions = [c \in Chatbots |-> <<>>]
    /\ message_count = [c \in Chatbots |-> 0]
    /\ req = [w \in Workers |-> Idle]
    /\ issued = 0
    /\ overlapped = FALSE
    /\ processed = [c \in Chatbots |-> 0]
    /\ raced = [c \in Chatbots |-> FALSE]
    /\ was_reset = [s \in SessionIds |-> "no"]
    /\ unit = NoUnit

Next ==
    \E w \in Workers :
        \/ chat_begin(w)
        \/ chat_create(w)
        \/ chat_fetch(w)
        \/ process_classify(w)
        \/ process_generate(w)
        \/ process_log(w)
        \/ process_insights(w)
        \/ process_load(w)
        \/ process_store(w)
        \/ process_return(w)
        \/ reset_session(w)
        \/ deliver(w)

Spec == Init /\ [][Next]_vars

\* ------------------------------------------------- single-call specifications

\* Fragments of a completion text.  Two of them spell a category word only
\* when put together; one carries upper-case letters.
Pieces ==
    {Chars("depression"), Chars("anxiety"), Chars("anger"), Chars("self_harm"),
     Chars("positive"), Chars("neutral"),
     <<"A","N","G","E","R">>, <<"s","e","l","f">>, <<"_","h","a","r","m">>,
     <<"s","e","l","f","-","h","a","r","m">>, <<" ">>, <<"s","a","d","\n">>}

\* Texts of at most n pieces
RECURSIVE Texts(_)
Texts(n) ==
    IF n = 0 THEN {<<>>}
    ELSE Texts(n - 1) \cup {t \o p : t \in Texts(n - 1), p \in Pieces}

\* Emotion logs of at most n entries
RECURSIVE Logs(_)
Logs(n) ==
    IF n = 0 THEN {<<>>}
    ELSE Logs(n - 1) \cup {Append(l, e) : l \in Logs(n - 1), e \in Labels}

InitApp ==
    /\ GROQ_API_KEY = TRUE
    /\ chatbot_instances = [s \in SessionIds |-> 0]
    /\ memory = [c \in Chatbots |-> <<>>]
    /\ emotions = [c \in Chatbots |-> <<>>]
    /\ message_count = [c \in Chatbots |-> 0]
    /\ req = [w \in Workers |-> Idle]
    /\ issued = 0
    /\ overlapped = FALSE
    /\ processed = [c \in Chatbots |-> 0]
    /\ raced = [c \in Chatbots |-> FALSE]
    /\ was_reset = [s \in SessionIds |-> "no"]

\* One call of classify_emotion on any gateway outcome
InitClassify ==
    /\ InitApp
    /\ \E out \in {GatewayError} \cup {Completion(t) : t \in Texts(MaxPieces)} :
        unit = [NoUnit EXCEPT !.pc = "classify", !.out = out]

unit_classify ==
    /\ unit.pc = "classify"
    /\ unit' = [unit EXCEPT !.pc = "classified",
                            !.label = classify_emotion(unit.out)]
    /\ UNCHANGED appvars

SpecClassify == InitClassify /\ [][unit_classify]_vars

\* The tail of process_message (lines 208-232) for any label, on a session
\* with any emotion log: add_turn's log append, _generate_mood_insights, the
\* urgent flag and the result.
InitInsights ==
    /\ InitApp
    /\ \E label \in Labels, log \in Logs(MaxLog) :
        unit = [NoUnit EXCEPT !.pc = "insights", !.label = label, !.log = log]

unit_insights ==
    /\ unit.pc = "insights"
    /\ LET log == log_append(unit.log, unit.label)
           mood_insights == generate_mood_insights(unit.label, log)
           urgent == urgent_intervention(mood_insights)
       IN  unit' = [unit EXCEPT
                        !.pc = "returned",
                        !.log = log,
                        !.mood_insights = mood_insights,
                        !.urgent = urgent,
                        !.response = Response(200,
                            process_message_result(APOLOGY, mood_insights, urgent,
                                                   Len(log)))]
    /\ UNCHANGED appvars

SpecInsights == InitInsights /\ [][unit_insights]_vars

\* ------------------------------------------------------------------ claims

ChatSuccess(r) ==
    r.pc = "done" /\ r.kind = "chat" /\ r.response.status = 200

Quiet(c) == \A w \in Workers : ~(Processing(req[w]) /\ req[w].chatbot = c)

\* C1: the turn history of every session holds at most 5 turns, and an
\* append to a history of 5 drops exactly the oldest turn: the other 4 keep
\* their order and the new turn follows them.
C1_HistoryBounded ==
    /\ [](\A c \in Chatbots : Len(memory[c]) <= 5)
    /\ [][\A c \in Chatbots :
            (memory'[c] # memory[c] /\ memory'[c] # <<>>) =>
                IF Len(memory[c]) = 5
                THEN /\ Len(memory'[c]) = 5
                     /\ SubSeq(memory'[c], 1, 4) = Tail(memory[c])
                ELSE /\ Len(memory'[c]) = Len(memory[c]) + 1
                     /\ SubSeq(memory'[c], 1, Len(memory[c])) = memory[c]]_vars

\* A sixth message went into a session whose history is full.
C1_Witness ==
    \E c \in Chatbots : Len(memory[c]) = 5 /\ Len(emotions[c]) = 6

\* C2: while no message is being processed on a session, its emotion log is
\* as long as the number of process_message calls that returned on it; a
\* failed classification logs "neutral"; the log only ever grows at its end.
C2_EmotionLogCountsMessages ==
    /\ [](\A c \in Chatbots : Quiet(c) => Len(emotions[c]) = processed[c])
    /\ [][\A c \in Chatbots :
            c \in Referenced(chatbot_instances', req') =>
                /\ Len(emotions'[c]) >= Len(emotions[c])
                /\ SubSeq(emotions'[c], 1, Len(emotions[c])) = emotions[c]]_vars
    /\ [][\A w \in Workers :
            (req[w].pc = "log" /\ req'[w].pc = "insights" /\ req[w].cls_failed) =>
                emotions'[req[w].chatbot] =
                    Append(emotions[req[w].chatbot], "neutral")]_vars

\* An idle session that logged a classified message and a failed one.
C2_Witness ==
    \E c \in Chatbots :
        /\ Quiet(c)
        /\ chatbot_instances["default"] = c
        /\ \E j, k \in 1..Len(emotions[c]) :
              emotions[c][j] = "neutral" /\ emotions[c][k] = "self_harm"

\* C3: in every successful /chat response the three balance counts sum to
\* min(5, n), n being the number of messages the session had logged, the
\* current one included, when the insight was derived, and the current label
\* is among the labels counted; when the session's requests never overlapped,
\* n is the message count of the response.
C3_BalanceSums ==
    \A w \in Workers :
        ChatSuccess(req[w]) =>
            LET d == req[w].response.body.data
                b == d.mood_insights.emotional_balance
                n == req[w].logged
                mood == d.mood_insights.current_mood
            IN  /\ n >= 1
                /\ b.positive + b.neutral + b.negative = Min(5, n)
                /\ mood = "positive" => b.positive >= 1
                /\ mood = "self_harm" => b.negative >= 1
                /\ mood = "neutral" => b.neutral >= 1
                /\ ~raced[req[w].chatbot] => n = d.session_stats.message_count

\* The sixth message of a session is answered.
C3_Witness ==
    \E w \in Workers :
        /\ ChatSuccess(req[w])
        /\ ~raced[req[w].chatbot]
        /\ req[w].response.body.data.session_stats.message_count = 6

\* C4: the risk level and the urgent flag follow the current label alone:
\* self_harm gives "high" and urgent, depression, anxiety and anger give
\* "moderate", every other label gives "low", and only self_harm is urgent,
\* whatever the emotion log holds.
C4_RiskFromCurrentLabel ==
    unit.pc = "returned" =>
        LET d == unit.response.body.data
            risk == d.mood_insights.risk_level
        IN  /\ unit.label = "self_harm" =>
                risk = "high" /\ d.urgent_intervention_needed = TRUE
            /\ unit.label \in {"depression", "anxiety", "anger"} => risk = "moderate"
            /\ unit.label \in {"positive", "neutral"} => risk = "low"
            /\ unit.label # "self_harm" => d.urgent_intervention_needed = FALSE
            /\ d.mood_insights.current_mood = unit.label

\* A positive message on a log that holds self_harm entries.
C4_Witness ==
    /\ unit.pc = "returned"
    /\ unit.log = <<"self_harm", "anger", "positive">>
    /\ unit.response.body.data.mood_insights.risk_level = "low"

\* C5: a valid /chat that is the first request of its id after a
\* /reset_session answers message_count 1 on a session with exactly 1 turn
\* and 1 logged emotion, whatever the session held before, provided no /chat
\* of the id was inside its session lookup when the reset ran and no other
\* request of the id overlaps the /chat; a reset always succeeds, and a reset
\* of an id without a session changes nothing.
C5_ResetStartsFresh ==
    /\ [](\A w \in Workers :
            (ChatSuccess(req[w]) /\ req[w].after_reset \notin {"no", "raced"}
                /\ ~raced[req[w].chatbot]) =>
                LET c == req[w].chatbot IN
                /\ req[w].response.body.data.session_stats.message_count = 1
                /\ message_count[c] = 1
                /\ Len(memory[c]) = 1
                /\ Len(emotions[c]) = 1)
    /\ [](\A w \in Workers :
            (req[w].pc = "done" /\ req[w].kind = "reset") =>
                /\ req[w].response.status = 200
                /\ req[w].response.body.success = TRUE)
    /\ [][\A w \in Workers :
            (req[w].pc = "idle" /\ req'[w].pc = "done" /\ req'[w].kind = "reset"
                /\ chatbot_instances[req'[w].session_id] = 0) =>
                UNCHANGED <<chatbot_instances, memory, emotions, message_count>>]_vars

\* A session with messages was reset and the next message is answered.
C5_Witness ==
    \E w \in Workers :
        /\ ChatSuccess(req[w])
        /\ req[w].after_reset = "removed"
        /\ ~raced[req[w].chatbot]

\* C6: a 500 response that carries a data payload carries every field of the
\* success payload.
SuccessFields ==
    {"bot_response", "mood_insights", "urgent_intervention_needed", "session_stats"}

BothFailed(r) == r.cls_failed /\ r.gen_failed

C7_GatewayFailuresAbsorbed ==
    /\ [](\A w \in Workers :
            (req[w].pc = "done" /\ BothFailed(req[w])) =>
                LET d == req[w].response.body.data IN
                /\ req[w].response.status = 200
                /\ req[w].response.body.success = TRUE
                /\ d.bot_response = APOLOGY
                /\ d.mood_insights.current_mood = "neutral"
                /\ d.mood_insights.risk_level = "low"
                /\ d.urgent_intervention_needed = FALSE)
    /\ [][\A w \in Workers :
            (req[w].pc = "generate" /\ req'[w].pc = "log" /\ BothFailed(req'[w])) =>
                LET m == memory'[req[w].chatbot] IN
                /\ m # <<>>
                /\ m[Len(m)] = [user |-> req[w].user_message, bot |-> APOLOGY,
                                emotion |-> "neutral"]]_vars
    /\ [][\A w \in Workers :
            (req[w].pc = "log" /\ req'[w].pc = "insights" /\ BothFailed(req[w])) =>
                emotions'[req[w].chatbot] =
                    Append(emotions[req[w].chatbot], "neutral")]_vars
    /\ [][\A w \in Workers :
            (req[w].pc = "store" /\ req'[w].pc = "respond" /\ BothFailed(req[w])) =>
                LET c == req[w].chatbot IN
                /\ message_count'[c] = req[w].count + 1
                /\ ~raced[c] => message_count'[c] = message_count[c] + 1]_vars

\* A request whose two gateway calls failed is answered.
C7_Witness ==
    \E w \in Workers :
        req[w].pc = "done" /\ BothFailed(req[w]) /\ req[w].response.status = 200

\* C8: for the k-th message of a session whose requests do not overlap, the
\* context handed to reply generation is the last min(2, k-1) stored turns,
\* oldest first, each as "User: ...\nBot: ...", joined by newlines: empty for
\* the first message, and holding the first message's user and bot text for
\* the second.
C8_ContextIsLastTwoTurns ==
    \A w \in Workers :
        (req[w].pc = "generate" /\ ~raced[req[w].chatbot]) =>
            LET m == memory[req[w].chatbot]
                before == message_count[req[w].chatbot]
                ctx == req[w].context
                shown(t) == <<"User: ">> \o t.user \o <<"\nBot: ">> \o t.bot
            IN  /\ Len(m) = Min(5, before)
                /\ before = 0 => ctx = <<>>
                /\ before = 1 =>
                    /\ ctx = shown(m[1])
                    /\ IsSubstr(m[1].user, ctx)
                    /\ IsSubstr(m[1].bot, ctx)
                /\ before >= 2 =>
                    ctx = shown(m[Len(m) - 1]) \o <<"\n">> \o shown(m[Len(m)])

\* The fourth message of a session whose stored turns differ.
C8_Witness ==
    \E w \in Workers :
        LET c == req[w].chatbot IN
        /\ req[w].pc = "generate"
        /\ ~raced[c]
        /\ message_count[c] = 3
        /\ memory[c][1] # memory[c][2]
        /\ memory[c][2] # memory[c][3]

\* C9: classify_emotion returns one of the six labels: "neutral" when the
\* gateway call fails, else the first word of depression, anxiety, anger,
\* self_harm, positive, neutral that the lower-cased trimmed output contains,
\* and "neutral" when it contains none.
ClaimedOrder ==
    <<"depression", "anxiety", "anger", "self_harm", "positive", "neutral">>

C9_FirstCategoryInOrder ==
    unit.pc = "classified" =>
        LET result == Lower(Strip(unit.out.text))
            has(k) == IsSubstr(Chars(ClaimedOrder[k]), result)
        IN  /\ unit.label \in {ClaimedOrder[k] : k \in 1..6}
            /\ ~unit.out.ok => unit.label = "neutral"
            /\ unit.out.ok =>
                /\ \A k \in 1..6 :
                      (has(k) /\ \A j \in 1..(k - 1) : ~has(j)) =>
                          unit.label = ClaimedOrder[k]
                /\ (\A k \in 1..6 : ~has(k)) => unit.label = "neutral"

\* An output naming two categories, the later one in list order first.
C9_Witness ==
    /\ unit.pc = "classified"
    /\ unit.out = Completion(Chars("neutral") \o <<"A","N","G","E","R">>)
    /\ unit.label = "anger"

\* C10: at most one process_message execution is under way on a session
\* object at any time.
C10_NoOverlap ==
    \A c \in Chatbots :
        Cardinality({w \in Workers : Processing(req[w]) /\ req[w].chatbot = c}) <= 1

====
